---- MODULE Spec2Model ----
(***************************************************************************)
(* Event-booking backend (src/server.js).  The state is the relational     *)
(* store (tables users, events, bookings and their id sequences) plus the  *)
(* requests in flight.  Every handler is a sequence of store queries; one  *)
(* query is one atomic step, and requests interleave between queries.      *)
(***************************************************************************)
EXTENDS Integers, FiniteSets, Sequences, TLC

\* ---------------------------------------------------------------- bounds
MaxProcs == 2
MaxUsers == 2
MaxEvents == 1
MaxBookings == 2
MaxSeats == 2
MaxRequests == 4

Procs == 1..MaxProcs
UserIds == 1..MaxUsers
EventIds == 1..MaxEvents
BookingIds == 1..MaxBookings
EmailOf == <<"a@x", "b@x", "c@x", "d@x", "e@x">>
Emails == {EmailOf[i] : i \in UserIds}

\* an absent string: a missing body field, SQL NULL, no error message
Null == "null"
\* an absent value of any other type is the empty sequence, a present one <<v>>
Absent == <<>>

\* request bodies
SeatInputs == {Absent} \cup {<<k>> : k \in -1..MaxSeats}
EventSeatInputs == -1..MaxSeats
EmailInputs == Emails \cup {Null}

VARIABLES
  users,        \* table users: rows [id, email]
  users_seq,    \* last value of the users id sequence
  events,       \* table events: rows [id, available_seats, user_id]
  events_seq,   \* last value of the events id sequence
  bookings,     \* table bookings: rows [id, event_id, user_id, seats]
  bookings_seq, \* last value of the bookings id sequence
  req,          \* per connection: the request in flight, its locals, its response
  pre,          \* history: <<the store when the request began>>, Absent once
                \* another request has taken a step since
  created_with, \* history: available_seats each event was inserted with
  rewritten,    \* history: events whose row an event update has rewritten
  started       \* history: the number of requests received so far

vars == <<users, users_seq, events, events_seq, bookings, bookings_seq,
          req, pre, created_with, rewritten, started>>

Store == [users |-> users, events |-> events, bookings |-> bookings]

\* ------------------------------------------------------------ the schema
UsersEmailTaken_NoConstraint(email, exceptId) == FALSE

\* users.email is UNIQUE: another row holds the email
UsersEmailTaken(email, exceptId) ==
  \E r \in users : r.email = email /\ r.id # exceptId

\* bookings has UNIQUE (event_id, user_id)
BookingsUniqueViolation_NoConstraint(e, u) == FALSE

BookingsUniqueViolation(e, u) ==
  \E b \in bookings : b.event_id = e /\ b.user_id = u

\* bookings.event_id REFERENCES events(id): an insert needs the event row
BookingsEventFkViolation_NoConstraint(e) == FALSE

BookingsEventFkViolation(e) ==
  ~ \E ev \in events : ev.id = e

\* bookings.event_id REFERENCES events(id): a referenced event row cannot go
EventsStillReferenced(e) ==
  \E b \in bookings : b.event_id = e

\* ------------------------------------------------------------- requests
IdleReq ==
  [kind |-> "none", pc |-> "idle", user |-> 0, id |-> 0, seats |-> Absent,
   email |-> Null, currentSeats |-> 0, eventId |-> 0,
   seatDifference |-> 0, inserted |-> 0, held |-> FALSE,
   status |-> 0, error |-> Null,
   password |-> Null, token |-> Absent, deleted |-> 0, failedAt |-> Null]

NewReq(kind, pc, u) == [IdleReq EXCEPT !.kind = kind, !.pc = pc, !.user = u]

\* res.status(s).json({error: e}) and the handler returns
Fail(r, s, e) == [r EXCEPT !.pc = "done", !.status = s, !.error = e]

\* res.status(s).json(...) on the success path
Ok(r, s) == [r EXCEPT !.pc = "done", !.status = s]

InFlight(p) == req[p].pc \notin {"idle", "done"}

\* authenticateToken: the token carries the id of a user row (login issued it)
Authenticated(u) == \E r \in users : r.id = u

\* the connections once p has moved to r: a response that was waiting on
\* another connection has been sent by now, which frees that connection
Moved(p, r) ==
  [q \in Procs |-> IF q = p THEN r
                   ELSE IF req[q].pc = "done" THEN IdleReq ELSE req[q]]

\* p's request moves to r; every other open request has now been interleaved
Step(p, r) ==
  /\ req' = Moved(p, r)
  /\ pre' = [q \in Procs |-> IF q = p THEN pre[p] ELSE Absent]
  /\ started' = started

\* p's request begins as r: on a connection with no request in flight, or as
\* the handler that authenticateToken's next() calls with req.user attached
Begin(p, r) ==
  IF req[p].pc = "next"
    THEN /\ req[p].kind = r.kind
         /\ req[p].user = r.user
         /\ started' = started
         /\ req' = Moved(p, [r EXCEPT !.token = req[p].token])
         /\ pre' = [q \in Procs |-> IF q = p THEN <<Store>> ELSE Absent]
    ELSE /\ ~InFlight(p)
         /\ started < MaxRequests
         /\ started' = started + 1
         /\ req' = Moved(p, r)
         /\ pre' = [q \in Procs |-> IF q = p THEN <<Store>> ELSE Absent]

UsersUnchanged == UNCHANGED <<users, users_seq>>
EventsUnchanged == UNCHANGED <<events, events_seq, created_with, rewritten>>
BookingsUnchanged == UNCHANGED <<bookings, bookings_seq>>

InitRest ==
  /\ events = {}
  /\ events_seq = 0
  /\ bookings = {}
  /\ bookings_seq = 0
  /\ req = [p \in Procs |-> IdleReq]
  /\ pre = [p \in Procs |-> Absent]
  /\ created_with = [e \in EventIds |-> Absent]
  /\ rewritten = {}
  /\ started = 0

\* the store once initializeDatabase has created the tables
InitUsers ==
  /\ users = {}
  /\ users_seq = 0
  /\ InitRest

\* the store once every user of UserIds has registered, each with an email of
\* their own
Init ==
  /\ users = {[id |-> i, email |-> EmailOf[i]] : i \in UserIds}
  /\ users_seq = MaxUsers
  /\ InitRest

\* ------------------------------------------------- POST /api/register
Register_Start(p, email) ==
  /\ users_seq + Cardinality({q \in Procs : req[q].pc = "rg_insert"}) < MaxUsers
  /\ Begin(p, [NewReq("register", "rg_insert", 0) EXCEPT !.email = email])
  /\ UsersUnchanged /\ EventsUnchanged /\ BookingsUnchanged

\* INSERT INTO users (name, email, password) ...
Register_Insert(p) ==
  /\ req[p].pc = "rg_insert"
  /\ users_seq' = users_seq + 1
  /\ IF req[p].email = Null
       THEN /\ users' = users
            /\ Step(p, Fail(req[p], 500, "Registration failed"))
       ELSE IF UsersEmailTaken(req[p].email, 0)
         THEN /\ users' = users
              /\ Step(p, Fail([req[p] EXCEPT !.held = TRUE], 400, "Email already exists"))
         ELSE /\ users' = users \cup {[id |-> users_seq + 1, email |-> req[p].email]}
              /\ Step(p, Ok([req[p] EXCEPT !.inserted = users_seq + 1], 201))
  /\ EventsUnchanged /\ BookingsUnchanged

\* --------------------------------------------------- PUT /api/profile
UpdateProfile_Start(p, u, email) ==
  /\ Authenticated(u)
  /\ Begin(p, [NewReq("profile", "pf_update", u) EXCEPT !.email = email])
  /\ UsersUnchanged /\ EventsUnchanged /\ BookingsUnchanged

\* UPDATE users SET name = $1, email = $2 ... WHERE id = req.user.id
UpdateProfile_Update(p) ==
  LET r == req[p]
      row == {x \in users : x.id = r.user}
  IN
  /\ r.pc = "pf_update"
  /\ users_seq' = users_seq
  /\ IF row = {}
       THEN /\ users' = users
            /\ Step(p, Fail(r, 404, "User not found"))
       ELSE IF r.email = Null
         THEN /\ users' = users
              /\ Step(p, Fail(r, 500, "Failed to update profile"))
         ELSE IF UsersEmailTaken(r.email, r.user)
           THEN /\ users' = users
                /\ Step(p, Fail([r EXCEPT !.held = TRUE], 400, "Email already exists"))
           ELSE /\ users' = (users \ row) \cup {[id |-> r.user, email |-> r.email]}
                /\ Step(p, Ok(r, 200))
  /\ EventsUnchanged /\ BookingsUnchanged

\* --------------------------------------------------- POST /api/events
\* INSERT INTO events (..., available_seats, user_id) ...
CreateEvent(p, u, seats) ==
  /\ Authenticated(u)
  /\ events_seq < MaxEvents
  /\ Begin(p, Ok([NewReq("event_create", "done", u) EXCEPT !.inserted = events_seq + 1], 201))
  /\ events_seq' = events_seq + 1
  /\ events' = events \cup
       {[id |-> events_seq + 1, available_seats |-> seats, user_id |-> u]}
  /\ created_with' = [created_with EXCEPT ![events_seq + 1] = <<seats>>]
  /\ rewritten' = rewritten
  /\ UsersUnchanged /\ BookingsUnchanged

\* ------------------------------------------------ PUT /api/events/:id
\* UPDATE events SET ..., available_seats = $5 WHERE id = $6 AND user_id = $7
UpdateEvent(p, u, e, seats) ==
  LET row == {ev \in events : ev.id = e /\ ev.user_id = u}
      r == [NewReq("event_update", "done", u) EXCEPT !.id = e]
  IN
  /\ Authenticated(u)
  /\ IF row = {}
       THEN /\ Begin(p, Fail(r, 404, "Event not found or not authorized"))
            /\ events' = events
            /\ rewritten' = rewritten
       ELSE /\ Begin(p, Ok(r, 200))
            /\ events' = (events \ row) \cup
                 {[id |-> e, available_seats |-> seats, user_id |-> u]}
            /\ rewritten' = rewritten \cup {e}
  /\ UNCHANGED <<events_seq, created_with>>
  /\ UsersUnchanged /\ BookingsUnchanged

\* --------------------------------------------- DELETE /api/events/:id
\* DELETE FROM bookings WHERE event_id = $1
DeleteEvent_Bookings(p, u, e) ==
  /\ Authenticated(u)
  /\ Begin(p, [NewReq("event_delete", "de_event", u) EXCEPT !.id = e])
  /\ bookings' = {b \in bookings : b.event_id # e}
  /\ bookings_seq' = bookings_seq
  /\ UsersUnchanged /\ EventsUnchanged

\* DELETE FROM events WHERE id = $1 AND user_id = $2
DeleteEvent_Event(p) ==
  LET r == req[p]
      row == {ev \in events : ev.id = r.id /\ ev.user_id = r.user}
  IN
  /\ r.pc = "de_event"
  /\ IF row = {}
       THEN /\ events' = events
            /\ Step(p, Fail(r, 404, "Event not found or not authorized"))
       ELSE IF EventsStillReferenced(r.id)
         THEN /\ events' = events
              /\ Step(p, Fail(r, 500, "Failed to delete event"))
         ELSE /\ events' = events \ row
              /\ Step(p, Ok(r, 200))
  /\ UNCHANGED <<events_seq, created_with, rewritten>>
  /\ UsersUnchanged /\ BookingsUnchanged

\* ------------------------------------------------- POST /api/bookings
\* !seats || seats <= 0
SeatsRejected(s) == s = Absent \/ s[1] <= 0

\* history: a booking of (e, u) that request r did not insert is in the table
HeldByOther(r) ==
  \E b \in bookings : b.event_id = r.id /\ b.user_id = r.user /\ b.id # r.inserted

\* creates that have yet to draw from the bookings id sequence
PendingInserts == Cardinality({q \in Procs : req[q].pc \in {"cb_event", "cb_insert"}})

NotEnoughSeats_OrNoneLeft(available_seats, seats) == available_seats <= seats

\* event.rows[0].available_seats < seats (create), < seatDifference (update)
NotEnoughSeats(available_seats, seats) == available_seats < seats

\* seats check, then SELECT id FROM bookings WHERE event_id = $1 AND user_id = $2
CreateBooking_Existing_BookedFirst(p, u, e, s) ==
  LET r == [NewReq("booking_create", "cb_event", u) EXCEPT !.id = e, !.seats = s]
  IN
  /\ Authenticated(u)
  /\ bookings_seq + PendingInserts < MaxBookings
  /\ IF \E b \in bookings : b.event_id = e /\ b.user_id = u
       THEN Begin(p, Fail([r EXCEPT !.held = TRUE], 400, "You have already booked this event"))
       ELSE IF SeatsRejected(s)
         THEN Begin(p, Fail(r, 400, "Number of seats must be positive"))
         ELSE Begin(p, r)
  /\ UsersUnchanged /\ EventsUnchanged /\ BookingsUnchanged

CreateBooking_Existing(p, u, e, s) ==
  LET r == [NewReq("booking_create", "cb_event", u) EXCEPT !.id = e, !.seats = s]
  IN
  /\ Authenticated(u)
  /\ bookings_seq + PendingInserts < MaxBookings
  /\ IF SeatsRejected(s)
       THEN Begin(p, Fail(r, 400, "Number of seats must be positive"))
       ELSE IF \E b \in bookings : b.event_id = e /\ b.user_id = u
         THEN Begin(p, Fail([r EXCEPT !.held = TRUE], 400, "You have already booked this event"))
         ELSE Begin(p, r)
  /\ UsersUnchanged /\ EventsUnchanged /\ BookingsUnchanged

\* bookings.seats INTEGER NOT NULL: an insert with no seats value is refused
BookingsSeatsNull(s) == s = Absent

\* SELECT * FROM events WHERE id = $1; a comparison with undefined is false
CreateBooking_Event(p) ==
  LET r == [req[p] EXCEPT !.held = HeldByOther(req[p])]
      row == {ev \in events : ev.id = r.id}
  IN
  /\ r.pc = "cb_event"
  /\ IF row = {}
       THEN Step(p, Fail(r, 404, "Event not found"))
       ELSE IF r.seats # Absent /\ \E ev \in row : NotEnoughSeats(ev.available_seats, r.seats[1])
         THEN Step(p, Fail(r, 400, "Not enough seats available"))
         ELSE Step(p, [r EXCEPT !.pc = "cb_insert", !.held = FALSE])
  /\ UsersUnchanged /\ EventsUnchanged /\ BookingsUnchanged

\* INSERT INTO bookings (event_id, user_id, seats) ... RETURNING *
CreateBooking_Insert(p) ==
  LET r == [req[p] EXCEPT !.held = HeldByOther(req[p])]
  IN
  /\ r.pc = "cb_insert"
  /\ bookings_seq' = bookings_seq + 1
  /\ IF \/ BookingsSeatsNull(r.seats)
        \/ BookingsUniqueViolation(r.id, r.user) \/ BookingsEventFkViolation(r.id)
       THEN /\ bookings' = bookings
            /\ Step(p, Fail(r, 500, "Failed to create booking"))
       ELSE /\ bookings' = bookings \cup
                 {[id |-> bookings_seq + 1, event_id |-> r.id,
                   user_id |-> r.user, seats |-> r.seats[1]]}
            /\ Step(p, [r EXCEPT !.pc = "cb_seats", !.inserted = bookings_seq + 1,
                                 !.held = FALSE])
  /\ UsersUnchanged /\ EventsUnchanged

\* the route of the earlier file src/unnamed/part_000: no check of seats, the
\* first query is the SELECT of the requester's booking; from the SELECT of
\* the event on it is the route above, line for line
CreateBooking_Existing_part_000(p, u, e, s) ==
  LET r == [NewReq("booking_create", "cb_event", u) EXCEPT !.id = e, !.seats = s]
  IN
  /\ Authenticated(u)
  /\ bookings_seq + PendingInserts < MaxBookings
  /\ IF \E b \in bookings : b.event_id = e /\ b.user_id = u
       THEN Begin(p, Fail([r EXCEPT !.held = TRUE], 400, "You have already booked this event"))
       ELSE Begin(p, r)
  /\ UsersUnchanged /\ EventsUnchanged /\ BookingsUnchanged

TakeSeats_OneTooMany(e, d) ==
  {IF ev.id = e THEN [ev EXCEPT !.available_seats = ev.available_seats - (d + 1)] ELSE ev
     : ev \in events}

\* UPDATE events SET available_seats = available_seats - d WHERE id = e
TakeSeats(e, d) ==
  {IF ev.id = e THEN [ev EXCEPT !.available_seats = ev.available_seats - d] ELSE ev
     : ev \in events}

\* UPDATE events SET available_seats = available_seats - $1 WHERE id = $2
CreateBooking_Seats(p) ==
  LET r == [req[p] EXCEPT !.held = HeldByOther(req[p])]
  IN
  /\ r.pc = "cb_seats"
  /\ events' = TakeSeats(r.id, r.seats[1])
  /\ Step(p, Ok(r, 201))
  /\ UNCHANGED <<events_seq, created_with, rewritten>>
  /\ UsersUnchanged /\ BookingsUnchanged

\* ---------------------------------------------- PUT /api/bookings/:id
SelectBooking_OfAnyUser(b, u) == {x \in bookings : x.id = b}

\* SELECT * FROM bookings WHERE id = $1 AND user_id = $2
SelectBooking(b, u) == {x \in bookings : x.id = b /\ x.user_id = u}

SeatDifference_Reversed(seats, currentSeats) == currentSeats - seats

\* const seatDifference = seats - currentSeats
SeatDifference(seats, currentSeats) == seats - currentSeats

\* seats check, then SELECT * FROM bookings WHERE id = $1 AND user_id = $2
UpdateBooking_Get(p, u, b, s) ==
  LET r == [NewReq("booking_update", "ub_event", u) EXCEPT !.id = b, !.seats = s]
      row == SelectBooking(b, u)
  IN
  /\ Authenticated(u)
  /\ IF SeatsRejected(s)
       THEN Begin(p, Fail(r, 400, "Number of seats must be positive"))
       ELSE IF row = {}
         THEN Begin(p, Fail(r, 404, "Booking not found or not authorized"))
         ELSE \E x \in row :
                Begin(p, [r EXCEPT !.currentSeats = x.seats, !.eventId = x.event_id,
                                   !.seatDifference = SeatDifference(s[1], x.seats)])
  /\ UsersUnchanged /\ EventsUnchanged /\ BookingsUnchanged

\* SELECT available_seats FROM events WHERE id = $1; event.rows[0] is read
UpdateBooking_Event(p) ==
  LET r == req[p]
      row == {ev \in events : ev.id = r.eventId}
  IN
  /\ r.pc = "ub_event"
  /\ IF row = {}
       THEN Step(p, Fail(r, 500, "Failed to update booking"))
       ELSE IF \E ev \in row : NotEnoughSeats(ev.available_seats, r.seatDifference)
         THEN Step(p, Fail(r, 400, "Not enough seats available"))
         ELSE Step(p, [r EXCEPT !.pc = "ub_booking"])
  /\ UsersUnchanged /\ EventsUnchanged /\ BookingsUnchanged

\* UPDATE bookings SET seats = $1 WHERE id = $2
UpdateBooking_Booking(p) ==
  LET r == req[p]
  IN
  /\ r.pc = "ub_booking"
  /\ bookings' = {IF x.id = r.id THEN [x EXCEPT !.seats = r.seats[1]] ELSE x
                    : x \in bookings}
  /\ bookings_seq' = bookings_seq
  /\ Step(p, [r EXCEPT !.pc = "ub_seats"])
  /\ UsersUnchanged /\ EventsUnchanged

\* UPDATE events SET available_seats = available_seats - $1 WHERE id = $2
UpdateBooking_Seats(p) ==
  LET r == req[p]
  IN
  /\ r.pc = "ub_seats"
  /\ events' = TakeSeats(r.eventId, r.seatDifference)
  /\ Step(p, Ok(r, 200))
  /\ UNCHANGED <<events_seq, created_with, rewritten>>
  /\ UsersUnchanged /\ BookingsUnchanged

\* ------------------------------------------- DELETE /api/bookings/:id
\* SELECT * FROM bookings WHERE id = $1 AND user_id = $2
CancelBooking_Get(p, u, b) ==
  LET r == [NewReq("booking_cancel", "cn_delete", u) EXCEPT !.id = b]
      row == SelectBooking(b, u)
  IN
  /\ Authenticated(u)
  /\ IF row = {}
       THEN Begin(p, Fail(r, 404, "Booking not found or not authorized"))
       ELSE \E x \in row :
              Begin(p, [r EXCEPT !.currentSeats = x.seats, !.eventId = x.event_id])
  /\ UsersUnchanged /\ EventsUnchanged /\ BookingsUnchanged

DeleteBooking_NoRow(b, u) == bookings

\* DELETE FROM bookings WHERE id = $1 AND user_id = $2
DeleteBooking(b, u) == {x \in bookings : ~(x.id = b /\ x.user_id = u)}

\* the handler's DELETE query
CancelBooking_Delete(p) ==
  LET r == req[p]
  IN
  /\ r.pc = "cn_delete"
  /\ bookings' = DeleteBooking(r.id, r.user)
  /\ bookings_seq' = bookings_seq
  /\ Step(p, [r EXCEPT !.pc = "cn_seats",
                       !.deleted = Cardinality(bookings \ DeleteBooking(r.id, r.user))])
  /\ UsersUnchanged /\ EventsUnchanged

\* UPDATE events SET available_seats = available_seats + $1 WHERE id = $2
CancelBooking_Seats(p) ==
  LET r == req[p]
  IN
  /\ r.pc = "cn_seats"
  /\ events' = TakeSeats(r.eventId, 0 - r.currentSeats)
  /\ Step(p, Ok(r, 200))
  /\ UNCHANGED <<events_seq, created_with, rewritten>>
  /\ UsersUnchanged /\ BookingsUnchanged

\* events and bookings, by the registered users
Next ==
  \E p \in Procs :
    \/ \E u \in UserIds, seats \in EventSeatInputs : CreateEvent(p, u, seats)
    \/ \E u \in UserIds, e \in EventIds, seats \in EventSeatInputs : UpdateEvent(p, u, e, seats)
    \/ \E u \in UserIds, e \in EventIds : DeleteEvent_Bookings(p, u, e)
    \/ DeleteEvent_Event(p)
    \/ \E u \in UserIds, e \in EventIds, s \in SeatInputs : CreateBooking_Existing(p, u, e, s)
    \/ CreateBooking_Event(p)
    \/ CreateBooking_Insert(p)
    \/ CreateBooking_Seats(p)
    \/ \E u \in UserIds, b \in BookingIds, s \in SeatInputs : UpdateBooking_Get(p, u, b, s)
    \/ UpdateBooking_Event(p)
    \/ UpdateBooking_Booking(p)
    \/ UpdateBooking_Seats(p)
    \/ \E u \in UserIds, b \in BookingIds : CancelBooking_Get(p, u, b)
    \/ CancelBooking_Delete(p)
    \/ CancelBooking_Seats(p)

Spec == Init /\ [][Next]_vars

\* registration and profile updates, from the empty store
NextUsers ==
  \E p \in Procs :
    \/ \E email \in EmailInputs : Register_Start(p, email)
    \/ Register_Insert(p)
    \/ \E u \in UserIds, email \in EmailInputs : UpdateProfile_Start(p, u, email)
    \/ UpdateProfile_Update(p)

SpecUsers == InitUsers /\ [][NextUsers]_vars

\* booking create, update and cancel on events that are created and then left
\* alone: no event update, no event delete
NextBookings ==
  \E p \in Procs :
    \/ \E u \in UserIds, seats \in EventSeatInputs : CreateEvent(p, u, seats)
    \/ \E u \in UserIds, e \in EventIds, s \in SeatInputs : CreateBooking_Existing(p, u, e, s)
    \/ CreateBooking_Event(p)
    \/ CreateBooking_Insert(p)
    \/ CreateBooking_Seats(p)
    \/ \E u \in UserIds, b \in BookingIds, s \in SeatInputs : UpdateBooking_Get(p, u, b, s)
    \/ UpdateBooking_Event(p)
    \/ UpdateBooking_Booking(p)
    \/ UpdateBooking_Seats(p)
    \/ \E u \in UserIds, b \in BookingIds : CancelBooking_Get(p, u, b)
    \/ CancelBooking_Delete(p)
    \/ CancelBooking_Seats(p)

SpecBookings == Init /\ [][NextBookings]_vars

\* ================================================================ claims
Done(p, kind) == req[p].kind = kind /\ req[p].pc = "done"

\* the request on p ran from its first query to its response with no step of
\* another request in between; pre[p][1] is the store it started from
Alone(p) == pre[p] # Absent

RECURSIVE SeatsOf(_)
SeatsOf(bs) ==
  IF bs = {} THEN 0
  ELSE LET b == CHOOSE x \in bs : TRUE IN b.seats + SeatsOf(bs \ {b})

BookedSeats(e) == SeatsOf({b \in bookings : b.event_id = e})

Untouched(ev) ==
  /\ created_with[ev.id] # Absent
  /\ ev.id \notin rewritten

\* C1: an event created with available_seats >= 0 and never rewritten by an
\* event update has available_seats >= 0 in every reachable state, whatever the
\* interleaving of booking create, update and cancel requests.
C1_SeatsNeverNegative ==
  \A ev \in events :
    (Untouched(ev) /\ created_with[ev.id][1] >= 0) => ev.available_seats >= 0

\* C2: the bookings table holds at most one row per (event_id, user_id) pair,
\* also when one user sends several creates for one event at the same time.
C2_OneBookingPerPair ==
  \A b1 \in bookings, b2 \in bookings :
    (b1.event_id = b2.event_id /\ b1.user_id = b2.user_id) => b1 = b2

\* C2 witness: the insert of a create was refused because a concurrent create
\* of the same user for the same event had inserted its row first.
C2_Witness ==
  \E p \in Procs :
    /\ Done(p, "booking_create")
    /\ req[p].status = 500
    /\ req[p].held
    /\ \E b \in bookings : b.event_id = req[p].id /\ b.user_id = req[p].user

\* C3: when no booking request is in flight, available_seats plus the seats of
\* all bookings of an event equals the available_seats it was created with.
C3_SeatAccounting ==
  (\A p \in Procs : ~InFlight(p)) =>
    \A ev \in events :
      Untouched(ev) => ev.available_seats + BookedSeats(ev.id) = created_with[ev.id][1]

\* the event row with id e in table evs (a set with at most one element)
EventRow(evs, e) == {ev \in evs : ev.id = e}

\* the booking row of user u on event e in table bs
BookingOf(bs, e, u) == {b \in bs : b.event_id = e /\ b.user_id = u}

\* table evs with d seats taken from event e
WithSeatsTaken(evs, e, d) ==
  {IF ev.id = e THEN [id |-> ev.id, user_id |-> ev.user_id,
                      available_seats |-> ev.available_seats - d]
   ELSE ev : ev \in evs}

\* C4: a booking create that runs alone, by a user with no booking on an event
\* with available_seats = N: for 0 < k <= N it answers 201, a booking of k seats
\* exists for (event, user) and available_seats = N - k; for k > N it answers
\* 400 'Not enough seats available', adds no row and leaves available_seats.
C4_CreateAlone ==
  \A p \in Procs :
    (Done(p, "booking_create") /\ Alone(p) /\ ~SeatsRejected(req[p].seats)) =>
      LET st == pre[p][1]
          e == req[p].id
          u == req[p].user
          k == req[p].seats[1]
      IN \A ev \in EventRow(st.events, e) :
           BookingOf(st.bookings, e, u) = {} =>
             /\ k <= ev.available_seats =>
                  /\ req[p].status = 201
                  /\ \E b \in bookings :
                       /\ b.event_id = e /\ b.user_id = u /\ b.seats = k
                       /\ b \notin st.bookings
                       /\ bookings = st.bookings \cup {b}
                  /\ events = WithSeatsTaken(st.events, e, k)
                  /\ \A x \in EventRow(events, e) :
                       x.available_seats = ev.available_seats - k
             /\ k > ev.available_seats =>
                  /\ req[p].status = 400
                  /\ req[p].error = "Not enough seats available"
                  /\ bookings = st.bookings
                  /\ events = st.events

\* C4 witness: a create that ran alone took the last seats of the event.
C4_Witness ==
  \E p \in Procs :
    /\ Done(p, "booking_create") /\ Alone(p)
    /\ req[p].status = 201
    /\ \E ev \in EventRow(pre[p][1].events, req[p].id) :
         ev.available_seats = req[p].seats[1]
    /\ \E ev \in EventRow(events, req[p].id) : ev.available_seats = 0

\* C5: a create with seats > 0 by a user who holds, or concurrently obtains, a
\* booking on the event answers 400 'You have already booked this event' and
\* nothing else.
C5_AlwaysAlreadyBooked ==
  \A p \in Procs :
    (Done(p, "booking_create") /\ ~SeatsRejected(req[p].seats) /\ req[p].held) =>
      /\ req[p].status = 400
      /\ req[p].error = "You have already booked this event"

\* C6: a cancel by the holder that runs alone on a booking of k seats removes
\* the booking row, raises the event's available_seats by exactly k and changes
\* nothing else in the store.
C6_CancelAlone ==
  \A p \in Procs :
    (Done(p, "booking_cancel") /\ Alone(p)) =>
      LET st == pre[p][1]
      IN \A b \in st.bookings :
           (b.id = req[p].id /\ b.user_id = req[p].user) =>
             /\ req[p].status = 200
             /\ bookings = st.bookings \ {b}
             /\ events = WithSeatsTaken(st.events, b.event_id, 0 - b.seats)
             /\ \E ev \in EventRow(st.events, b.event_id) :
                  \E x \in EventRow(events, b.event_id) :
                    x.available_seats = ev.available_seats + b.seats
             /\ users = st.users

\* C6 witness: a cancel that ran alone has given back a booking of 2 seats.
C6_Witness ==
  \E p \in Procs :
    /\ Done(p, "booking_cancel") /\ Alone(p)
    /\ req[p].status = 200
    /\ \E b \in pre[p][1].bookings :
         b.id = req[p].id /\ b.user_id = req[p].user /\ b.seats = 2

\* the effect of an update of booking b to k seats that ran alone from store st
UpdateApplied(st, b, k) ==
  /\ bookings = (st.bookings \ {b}) \cup
       {[id |-> b.id, event_id |-> b.event_id, user_id |-> b.user_id, seats |-> k]}
  /\ events = WithSeatsTaken(st.events, b.event_id, k - b.seats)
  /\ \E ev \in EventRow(st.events, b.event_id) :
       \E x \in EventRow(events, b.event_id) :
         x.available_seats = ev.available_seats + (b.seats - k)
  /\ users = st.users

\* C7 as claimed: an update from a to b seats that runs alone and succeeds
\* changes available_seats by exactly a - b and sets the booking's seats to b;
\* an update to the current seat count succeeds and leaves the store as it was.
C7_UpdateAlone_Claimed ==
  \A p \in Procs :
    (Done(p, "booking_update") /\ Alone(p) /\ ~SeatsRejected(req[p].seats)) =>
      LET st == pre[p][1]
          k == req[p].seats[1]
      IN \A b \in st.bookings :
           (b.id = req[p].id /\ b.user_id = req[p].user) =>
             /\ req[p].status = 200 => UpdateApplied(st, b, k)
             /\ k = b.seats => (req[p].status = 200 /\ Store = st)

\* C7 as amended: an update from a to b seats that runs alone and succeeds
\* changes available_seats by exactly a - b and sets the booking's seats to b;
\* an update to the current seat count succeeds and leaves the store as it was
\* when the event's available_seats is not negative, and otherwise answers 400
\* 'Not enough seats available', the store again as it was.
C7_UpdateAlone ==
  \A p \in Procs :
    (Done(p, "booking_update") /\ Alone(p) /\ ~SeatsRejected(req[p].seats)) =>
      LET st == pre[p][1]
          k == req[p].seats[1]
      IN \A b \in st.bookings :
           (b.id = req[p].id /\ b.user_id = req[p].user) =>
             /\ req[p].status = 200 => UpdateApplied(st, b, k)
             /\ k = b.seats =>
                  \A ev \in EventRow(st.events, b.event_id) :
                    /\ Store = st
                    /\ ev.available_seats >= 0 => req[p].status = 200
                    /\ ev.available_seats < 0 =>
                         /\ req[p].status = 400
                         /\ req[p].error = "Not enough seats available"

\* C7 witness: an update that ran alone has lowered a booking from 2 seats to 1.
C7_Witness ==
  \E p \in Procs :
    /\ Done(p, "booking_update") /\ Alone(p)
    /\ req[p].status = 200
    /\ req[p].currentSeats = 2
    /\ req[p].seats = <<1>>

\* C8: every booking row references an event row that exists, and once an
\* event delete has answered 200 no booking row references the deleted event,
\* also when booking creates run between the two queries of the delete.
C8_NoOrphanBooking ==
  /\ \A b \in bookings : EventRow(events, b.event_id) # {}
  /\ \A p \in Procs :
       (Done(p, "event_delete") /\ req[p].status = 200) =>
         /\ EventRow(events, req[p].id) = {}
         /\ \A b \in bookings : b.event_id # req[p].id

\* C8 witness: a booking create inserted its row between the two queries of an
\* event delete by the owner, and the delete of the event row was refused.
C8_Witness ==
  \E p \in Procs :
    /\ Done(p, "event_delete")
    /\ req[p].status = 500
    /\ \E b \in bookings : b.event_id = req[p].id

\* C9: an event update or event delete by a user who does not own the event
\* answers 404 and leaves the store, bookings of the event included, unchanged.
C9_OnlyOwnerWrites ==
  \A p \in Procs :
    ((Done(p, "event_update") \/ Done(p, "event_delete")) /\ Alone(p)) =>
      \A ev \in EventRow(pre[p][1].events, req[p].id) :
        ev.user_id # req[p].user =>
          /\ req[p].status = 404
          /\ Store = pre[p][1]

\* another user's row holds the email that p's register or profile update is
\* about to write
EmailStored(p) ==
  \E r \in users : r.email = req[p].email /\ r.id # req[p].user

\* the query of p's register or profile update runs in this step
UserWrite(p) ==
  /\ req[p].pc \in {"rg_insert", "pf_update"}
  /\ req'[p].pc = "done"

ErrorOf(kind) ==
  IF kind = "booking_create" THEN "Failed to create booking"
  ELSE IF kind = "booking_update" THEN "Failed to update booking"
  ELSE "Failed to cancel booking"

BookingRoutes == {"booking_create", "booking_update", "booking_cancel"}

\* the pool.query a request was about to issue
AtQuery(p) == req[p].kind \in BookingRoutes /\ InFlight(p)

QueryFails_RollsBack(p) ==
  LET r == req[p]
  IN
  /\ AtQuery(p)
  /\ Step(p, Fail([r EXCEPT !.failedAt = r.pc], 500, ErrorOf(r.kind)))
  /\ bookings' = {x \in bookings : x.id # r.inserted}
  /\ bookings_seq' = bookings_seq
  /\ UsersUnchanged /\ EventsUnchanged

\* await pool.query(...) rejects: control passes to the catch block, which
\* logs and answers 500; the query changed nothing
QueryFails(p) ==
  LET r == req[p]
  IN
  /\ AtQuery(p)
  /\ Step(p, Fail([r EXCEPT !.failedAt = r.pc], 500, ErrorOf(r.kind)))
  /\ UsersUnchanged /\ EventsUnchanged /\ BookingsUnchanged

\* the first query of a handler rejects (the seats value passed its check)
FirstQueryFails(p, kind, u, id) ==
  LET r == [NewReq(kind, "done", u) EXCEPT
              !.id = id, !.failedAt = "first",
              !.seats = IF kind = "booking_cancel" THEN Absent ELSE <<1>>]
  IN
  /\ Authenticated(u)
  /\ Begin(p, Fail(r, 500, ErrorOf(kind)))
  /\ UsersUnchanged /\ EventsUnchanged /\ BookingsUnchanged

\* the booking routes over a store whose queries may fail
NextFail ==
  \E p \in Procs :
    \/ \E u \in UserIds, seats \in EventSeatInputs : CreateEvent(p, u, seats)
    \/ \E u \in UserIds, e \in EventIds, s \in SeatInputs : CreateBooking_Existing(p, u, e, s)
    \/ CreateBooking_Event(p)
    \/ CreateBooking_Insert(p)
    \/ CreateBooking_Seats(p)
    \/ \E u \in UserIds, b \in BookingIds, s \in SeatInputs : UpdateBooking_Get(p, u, b, s)
    \/ UpdateBooking_Event(p)
    \/ UpdateBooking_Booking(p)
    \/ UpdateBooking_Seats(p)
    \/ \E u \in UserIds, b \in BookingIds : CancelBooking_Get(p, u, b)
    \/ CancelBooking_Delete(p)
    \/ CancelBooking_Seats(p)
    \/ QueryFails(p)
    \/ \E kind \in BookingRoutes, u \in UserIds, id \in BookingIds :
         FirstQueryFails(p, kind, u, id)

SpecFail == Init /\ [][NextFail]_vars

\* the earlier route file: events are created, booked and cancelled
NextPart000 ==
  \E p \in Procs :
    \/ \E u \in UserIds, seats \in EventSeatInputs : CreateEvent(p, u, seats)
    \/ \E u \in UserIds, e \in EventIds, s \in SeatInputs :
         CreateBooking_Existing_part_000(p, u, e, s)
    \/ CreateBooking_Event(p)
    \/ CreateBooking_Insert(p)
    \/ CreateBooking_Seats(p)
    \/ \E u \in UserIds, b \in BookingIds : CancelBooking_Get(p, u, b)
    \/ CancelBooking_Delete(p)
    \/ CancelBooking_Seats(p)

SpecPart000 == Init /\ [][NextPart000]_vars

\* =========================================================== Auth module
\* passwords a client may send; the one user i registered with is PasswordOf[i]
Passwords == {"pw1", "pw2"}
PasswordOf == <<"pw1", "pw2", "pw1", "pw2", "pw1">>
PasswordInputs == Passwords \cup {Null}

\* bcrypt.hash(password, 10): one-way, the stored value is not the password
Hash(password) == <<"bcrypt", password>>

\* bcrypt.compare(password, hash)
Compare(password, hash) == hash = Hash(password)

\* users.password of the row with this id: written by register, and constant
\* where neither register nor profile update runs
StoredPassword(id) == Hash(PasswordOf[id])

\* jwt.sign({ id, email }, JWT_SECRET, { expiresIn: '1h' })
Sign(id, email) ==
  [id |-> id, email |-> email, secret |-> "JWT_SECRET",
   expired |-> FALSE, malformed |-> FALSE]

\* --------------------------------------------------- POST /api/login
\* SELECT * FROM users WHERE email = $1
Login_Select(p, email, password) ==
  LET r == [NewReq("login", "lg_compare", 0) EXCEPT !.email = email, !.password = password]
      row == {x \in users : x.email = email}
  IN
  /\ IF row = {}
       THEN Begin(p, Fail(r, 401, "Invalid credentials"))
       ELSE \E x \in row : Begin(p, [r EXCEPT !.user = x.id])
  /\ UsersUnchanged /\ EventsUnchanged /\ BookingsUnchanged

\* bcrypt.compare against user.rows[0].password, then jwt.sign
Login_Compare(p) ==
  LET r == req[p]
  IN
  /\ r.pc = "lg_compare"
  /\ IF r.password = Null
       THEN Step(p, Fail(r, 500, "Login failed"))
       ELSE IF ~Compare(r.password, StoredPassword(r.user))
         THEN Step(p, Fail(r, 401, "Invalid credentials"))
         ELSE Step(p, Ok([r EXCEPT !.token = <<Sign(r.user, r.email)>>], 200))
  /\ UsersUnchanged /\ EventsUnchanged /\ BookingsUnchanged

\* ------------------------------------------------- authenticateToken
\* what a client can put after "Bearer": a token login issued, the same token
\* an hour later, a token signed with another secret, or no JWT at all
Malformed ==
  [id |-> 0, email |-> Null, secret |-> Null, expired |-> FALSE, malformed |-> TRUE]

TokensOf(u) ==
  {Sign(u, EmailOf[u]),
   [Sign(u, EmailOf[u]) EXCEPT !.expired = TRUE],
   [Sign(u, EmailOf[u]) EXCEPT !.secret = "other"]}

TokenInputs ==
  {Absent, <<Malformed>>} \cup {<<t>> : t \in UNION {TokensOf(u) : u \in UserIds}}

Verify_IgnoresExpiry(token) == ~token.malformed /\ token.secret = "JWT_SECRET"

\* jwt.verify(token, JWT_SECRET, ...) calls back without err
Verify(token) == ~token.malformed /\ token.secret = "JWT_SECRET" /\ ~token.expired

\* routes registered with authenticateToken: app.post('/api/events'),
\* app.post('/api/bookings'), app.delete('/api/bookings/:id'); every other
\* route but register, login and the event list names the same middleware
ProtectedRoutes == {"event_create", "booking_create", "booking_cancel"}

\* the middleware in front of a protected route
AuthenticateToken(p, route, token) ==
  LET r == [NewReq(route, "next", 0) EXCEPT !.token = token]
  IN
  /\ ~InFlight(p)
  /\ IF token = Absent
       THEN Begin(p, Fail(r, 401, Null))
       ELSE IF ~Verify(token[1])
         THEN Begin(p, Fail(r, 403, Null))
         ELSE Begin(p, [r EXCEPT !.user = token[1].id])
  /\ UsersUnchanged /\ EventsUnchanged /\ BookingsUnchanged

\* next() has been called on p for this route
Next_(p, route) == req[p].pc = "next" /\ req[p].kind = route

\* login and token-checked requests, by the registered users
NextAuth ==
  \E p \in Procs :
    \/ \E email \in EmailInputs, password \in PasswordInputs : Login_Select(p, email, password)
    \/ Login_Compare(p)
    \/ \E route \in ProtectedRoutes, token \in TokenInputs : AuthenticateToken(p, route, token)
    \/ \E seats \in EventSeatInputs :
         Next_(p, "event_create") /\ CreateEvent(p, req[p].user, seats)
    \/ \E e \in EventIds, s \in SeatInputs :
         Next_(p, "booking_create") /\ CreateBooking_Existing(p, req[p].user, e, s)
    \/ CreateBooking_Event(p)
    \/ CreateBooking_Insert(p)
    \/ CreateBooking_Seats(p)
    \/ \E b \in BookingIds :
         Next_(p, "booking_cancel") /\ CancelBooking_Get(p, req[p].user, b)
    \/ CancelBooking_Delete(p)
    \/ CancelBooking_Seats(p)

SpecAuth == Init /\ [][NextAuth]_vars

\* what a login request carries back
LoginResponse(p) ==
  [status |-> req[p].status, error |-> req[p].error, token |-> req[p].token]

UnknownEmail(p) == ~ \E x \in users : x.email = req[p].email

\* the email is registered and the password sent (or its absence) is not the
\* one its hash was made from
WrongPassword(p) ==
  \E x \in users :
    /\ x.email = req[p].email
    /\ StoredPassword(x.id) # Hash(req[p].password)

\* C11: a login with an unknown email and a login with a known email and a
\* wrong password get one and the same response, 401 {error: 'Invalid
\* credentials'} with no token, so that the response does not tell whether
\* the email is registered; neither changes the store.
C11_SameInvalidCredentials ==
  \A p \in Procs :
    (Done(p, "login") /\ (UnknownEmail(p) \/ WrongPassword(p))) =>
      /\ LoginResponse(p) =
           [status |-> 401, error |-> "Invalid credentials", token |-> Absent]
      /\ Alone(p) => Store = pre[p][1]

\* t is a token login signed for a stored user, less than an hour ago
Issued(t) == \E x \in users : t = Sign(x.id, x.email)

\* the middleware answered p's request itself: no handler, no query
Rejected(p, status) ==
  /\ req[p].pc = "done" /\ req[p].status = status
  /\ req[p].user = 0 /\ req[p].inserted = 0
  /\ Alone(p) => Store = pre[p][1]

\* C12: on a protected route a request with no token is answered 401 and one
\* with a malformed, expired or wrongly signed token 403, in both cases with
\* no handler run and the store unchanged; a handler runs only with the
\* claims of a valid token attached as req.user.
C12_TokenBeforeHandler ==
  /\ [](\A p \in Procs :
          req[p].kind \in ProtectedRoutes =>
            LET t == req[p].token IN
            /\ t = Absent => Rejected(p, 401)
            /\ (t # Absent /\ ~Issued(t[1])) => Rejected(p, 403)
            /\ (req[p].pc # "done" \/ req[p].status \notin {401, 403}) =>
                 /\ t # Absent /\ Issued(t[1])
                 /\ req[p].user = t[1].id /\ req[p].email \in {Null, t[1].email})
  /\ [][\A p \in Procs :
          (req'[p].kind \in ProtectedRoutes /\ req'[p].token # Absent
             /\ Store' # Store /\ req'[p] # req[p]) => Issued(req'[p].token[1])]_vars

\* C12 witness: a handler completed a booking under a valid token, after
\* which an expired token of the same user is turned away.
C12_Witness ==
  \E p \in Procs :
    /\ req[p].kind = "booking_create" /\ Rejected(p, 403)
    /\ req[p].token # Absent /\ req[p].token[1].expired
    /\ \E b \in bookings : b.user_id = req[p].token[1].id

\* p's request addresses a booking by id
OnBooking(p) ==
  req[p].pc = "done" /\ req[p].kind \in {"booking_update", "booking_cancel"}

\* when p's request began, the user sending it held no booking with that id
NotHolder(p) ==
  ~ \E x \in pre[p][1].bookings : x.id = req[p].id /\ x.user_id = req[p].user

NotFoundOrForbidden(p) ==
  req[p].status = 404 /\ req[p].error = "Booking not found or not authorized"

\* a booking row is rewritten or removed only by a step of an update or a
\* cancel that its holder sent for it
OnlyHolderChanges ==
  \A b \in bookings :
    b \notin bookings' =>
      \E p \in Procs :
        /\ req'[p] # req[p]
        /\ req[p].kind \in {"booking_update", "booking_cancel"}
        /\ req[p].user = b.user_id /\ req[p].id = b.id

\* C13 as claimed: every update or cancel by a user who does not hold the
\* addressed booking is answered 404 and leaves bookings and events unchanged.
C13_NotHolder_Claimed ==
  \A p \in Procs :
    (OnBooking(p) /\ Alone(p) /\ NotHolder(p)) =>
      NotFoundOrForbidden(p) /\ Store = pre[p][1]

\* C13: an update with seats > 0, or a cancel, by a user who does not hold
\* the addressed booking (or for an id that does not exist) is answered 404;
\* an update with seats missing or <= 0 is answered 400 whoever sends it; in
\* both cases bookings and events are unchanged, and a booking row is changed
\* or removed only by requests of its holder.
C13_NotHolder ==
  /\ [](\A p \in Procs :
          (OnBooking(p) /\ Alone(p) /\ NotHolder(p)) =>
            /\ Store = pre[p][1]
            /\ IF req[p].kind = "booking_update" /\ SeatsRejected(req[p].seats)
                 THEN req[p].status = 400
                 ELSE NotFoundOrForbidden(p))
  /\ [][OnlyHolderChanges]_vars

\* C13 witness: a user asked to change the seats of a booking another user
\* holds and got 404.
C13_Witness ==
  \E p \in Procs :
    /\ Done(p, "booking_update") /\ Alone(p) /\ NotFoundOrForbidden(p)
    /\ \E x \in bookings : x.id = req[p].id /\ x.user_id # req[p].user

InsufficientSeats(r) == r.status = 400 /\ r.error = "Not enough seats available"

\* the step of an update that has read its event row: refused exactly when
\* the available_seats it read is below newSeats - currentSeats
UpdateDecides ==
  \A p \in Procs :
    (req[p].pc = "ub_event" /\ req'[p] # req[p]) =>
      \A ev \in events :
        ev.id = req[p].eventId =>
          IF ev.available_seats < req[p].seats[1] - req[p].currentSeats
            THEN /\ req'[p].pc = "done" /\ InsufficientSeats(req'[p])
                 /\ Store' = Store
            ELSE req'[p].pc = "ub_booking"

\* once past the check an update runs its two writes and answers 200
UpdateGoesThrough ==
  \A p \in Procs :
    (req[p].pc \in {"ub_booking", "ub_seats"} /\ req'[p] # req[p]) =>
      \/ req[p].pc = "ub_booking" /\ req'[p].pc = "ub_seats"
      \/ req[p].pc = "ub_seats" /\ req'[p].pc = "done" /\ req'[p].status = 200

\* C14: an update by the holder with newSeats > 0 fails with 400 'Not enough
\* seats available' exactly when the available_seats the handler read is less
\* than newSeats - currentSeats, and then booking and event are unchanged;
\* otherwise it succeeds, so with available_seats >= 0 an update that lowers
\* or keeps the seat count succeeds.
C14_UpdateRefusedIffShort ==
  /\ [][UpdateDecides /\ UpdateGoesThrough]_vars
  /\ [](\A p \in Procs :
          (Done(p, "booking_update") /\ Alone(p) /\ ~NotHolder(p)
             /\ ~SeatsRejected(req[p].seats)) =>
            \A b \in pre[p][1].bookings, ev \in pre[p][1].events :
              (b.id = req[p].id /\ ev.id = b.event_id) =>
                IF ev.available_seats < req[p].seats[1] - b.seats
                  THEN InsufficientSeats(req[p]) /\ Store = pre[p][1]
                  ELSE /\ req[p].status = 200
                       /\ ev.available_seats >= 0 =>
                            \A e2 \in events : e2.id = ev.id => e2.available_seats >= 0)

\* C14 witness: a holder asked for more seats than the event had left and
\* was refused.
C14_Witness ==
  \E p \in Procs :
    /\ Done(p, "booking_update") /\ Alone(p) /\ InsufficientSeats(req[p])
    /\ req[p].seats[1] > req[p].currentSeats
    /\ \E ev \in events : ev.id = req[p].eventId /\ ev.available_seats >= 0

InvalidSeatCount(r) ==
  r.status = 400 /\ r.error = "Number of seats must be positive"

\* C15: every booking row has seats > 0: a create or an update whose seats
\* value is zero, negative or missing is answered 400 'Number of seats must be
\* positive' before any query, with bookings and available_seats unchanged.
C15_SeatsPositive ==
  /\ \A b \in bookings : b.seats > 0
  /\ \A p \in Procs :
       (req[p].kind \in {"booking_create", "booking_update"}
          /\ SeatsRejected(req[p].seats)) =>
         /\ req[p].pc = "done" /\ InvalidSeatCount(req[p])
         /\ Alone(p) => Store = pre[p][1]

\* the response the checks of a create give on store st, in their order
CreateAnswer(st, r) ==
  IF r.seats = Absent \/ r.seats[1] <= 0
    THEN [status |-> 400, error |-> "Number of seats must be positive"]
  ELSE IF BookingOf(st.bookings, r.id, r.user) # {}
    THEN [status |-> 400, error |-> "You have already booked this event"]
  ELSE IF EventRow(st.events, r.id) = {}
    THEN [status |-> 404, error |-> "Event not found"]
  ELSE IF \E ev \in EventRow(st.events, r.id) : ev.available_seats < r.seats[1]
    THEN [status |-> 400, error |-> "Not enough seats available"]
  ELSE [status |-> 201, error |-> Null]

\* a step that ends a create in failure writes nothing
FailingCreateWritesNothing ==
  \A p \in Procs :
    (req'[p] # req[p] /\ req'[p].kind = "booking_create"
       /\ req'[p].pc = "done" /\ req'[p].status # 201) => Store' = Store

\* C16: a create reports the first check that fails in the order
\* InvalidSeatCount, AlreadyBooked, NotFound, InsufficientSeats (404 for an
\* event id that does not exist), and a failing create inserts no booking row
\* and changes no event's available_seats.
C16_CreateChecksInOrder ==
  /\ [](\A p \in Procs :
          Done(p, "booking_create") =>
            /\ Alone(p) =>
                 [status |-> req[p].status, error |-> req[p].error] =
                   CreateAnswer(pre[p][1], req[p])
            /\ req[p].status # 201 =>
                 /\ req[p].inserted = 0
                 /\ Alone(p) => Store = pre[p][1])
  /\ [][FailingCreateWritesNothing]_vars

\* C16 witness: a create with seats > 0 for an event id that does not exist,
\* by a user with no booking, was answered 404.
C16_Witness ==
  \E p \in Procs :
    /\ Done(p, "booking_create") /\ Alone(p)
    /\ req[p].status = 404 /\ req[p].error = "Event not found"
    /\ ~SeatsRejected(req[p].seats)
    /\ EventRow(events, req[p].id) = {}
    /\ BookingOf(bookings, req[p].id, req[p].user) = {}

\* C18: a booking's seats are returned to its event at most once: of the
\* cancel requests for one booking, sequential or overlapping, only the one
\* whose DELETE removed the row answers 200 and adds the seats back.
C18_SeatsReturnedOnce ==
  \A p \in Procs :
    req[p].kind = "booking_cancel" =>
      /\ req[p].pc = "cn_seats" => req[p].deleted = 1
      /\ (req[p].pc = "done" /\ req[p].status = 200) => req[p].deleted = 1

Failed(r) == r.failedAt # Null

\* the step on which a query of a booking route fails: 500, nothing written
FailureAnswers500 ==
  \A p \in Procs :
    (Failed(req'[p]) /\ req'[p] # req[p]) =>
      /\ req'[p].pc = "done" /\ req'[p].status = 500
      /\ req'[p].error \in {"Failed to create booking", "Failed to update booking",
                            "Failed to cancel booking"}
      /\ Store' = Store

\* after the 500 the request takes no step: the connection is freed or a new
\* request begins on it
NoQueryAfterFailure ==
  \A p \in Procs :
    (Failed(req[p]) /\ req'[p] # req[p]) =>
      req'[p] = IdleReq \/ started' = started + 1

\* the store after a request that ran alone and failed at query pc: what the
\* queries before pc wrote stays, what pc and the later ones write is missing
LeftAsIs(p) ==
  LET r == req[p]
      st == pre[p][1]
  IN
  /\ events = st.events
  /\ bookings =
       IF r.failedAt = "cb_seats"
         THEN st.bookings \cup {[id |-> r.inserted, event_id |-> r.id,
                                 user_id |-> r.user, seats |-> r.seats[1]]}
       ELSE IF r.failedAt = "ub_seats"
         THEN {IF x.id = r.id THEN [x EXCEPT !.seats = r.seats[1]] ELSE x : x \in st.bookings}
       ELSE IF r.failedAt = "cn_seats"
         THEN {x \in st.bookings : x.id # r.id}
       ELSE st.bookings

\* C17: a store failure at any query of a booking create, update or cancel
\* makes the handler answer 500 and issue no further query, with no retry and
\* no rollback: when the seat decrement fails after the insert, the booking
\* row stays and available_seats is not decremented.
C17_FailureLeavesPartialWrites ==
  /\ [][FailureAnswers500 /\ NoQueryAfterFailure]_vars
  /\ [](\A p \in Procs :
          (req[p].pc = "done" /\ Failed(req[p]) /\ Alone(p)) => LeftAsIs(p))

\* C17 witness: the seat decrement of a create failed after its insert; the
\* row is in the table and the event has the seats it had.
C17_Witness ==
  \E p \in Procs :
    /\ Done(p, "booking_create") /\ Alone(p)
    /\ req[p].failedAt = "cb_seats" /\ req[p].status = 500
    /\ \E b \in bookings : b.id = req[p].inserted /\ b.seats > 0
    /\ events = pre[p][1].events
====
